---- MODULE Spec2Model ----
(***************************************************************************)
(* A model of nws_cap.CAP_Feed (src/nws_cap/CAP_Feed.py): a feed is a      *)
(* Python dict from alert identifier to CAP_Alert.  The first part models  *)
(* the in-memory operations (__init__, __add__, __iadd__, the filters and  *)
(* categorize_alerts) on two feed objects; the second part models          *)
(* get_zones as a sequential process that talks to the alert server.       *)
(***************************************************************************)
EXTENDS Integers, Sequences, FiniteSets, TLC

\* ------------------------------------------------------------------------
\* Bounds of the model
\* ------------------------------------------------------------------------
\* longest alert list handed to the constructor
MaxAlerts == 2
\* longest list of values / locations handed to a filter
MaxValues == 2
\* longest list of zone codes handed to get_zones
MaxZones == 2
\* most entries in one fetched document
MaxEntries == 2

\* ------------------------------------------------------------------------
\* Data: zone codes, alerts, dicts
\* ------------------------------------------------------------------------
\* Zone codes are strings; they are modelled as sequences of characters so
\* that zone[0:2] and str.lower() are computed, not assumed.
MIZ1 == <<"M", "I", "Z", "1">>
miZ1 == <<"m", "i", "Z", "1">>
OHZ1 == <<"O", "H", "Z", "1">>
ZoneCodes == {MIZ1, miZ1, OHZ1}
F26001 == <<"0", "2", "6", "0", "0", "1">>
F39001 == <<"0", "3", "9", "0", "0", "1">>
CountyCodes == {F26001, F39001}

Ids == {"A", "B"}
Urgencies == {"Immediate", "Expected"}
FieldNames == {"id", "urgency"}
Notations == {"UGC", "FIPS6"}

\* A CAP_Alert: its scalar fields and its geocodes per notation.
Alert(i, u, ugc, fips) == [id |-> i, urgency |-> u, UGC |-> ugc, FIPS6 |-> fips]

\* The alerts the model draws from: several copies per identifier that
\* differ in content, covering one zone, two zones and no zone.
Alerts ==
    { Alert("A", "Immediate", {MIZ1}, {F26001}),
      Alert("A", "Expected", {MIZ1, OHZ1}, {F26001, F39001}),
      Alert("A", "Expected", {}, {}),
      Alert("B", "Immediate", {MIZ1, OHZ1}, {}),
      Alert("B", "Expected", {OHZ1}, {F39001}),
      Alert("B", "Immediate", {miZ1}, {F26001}) }

\* CAP_Alert.get_field(name): the scalar value of a named field.
get_field(alert, field_name) == alert[field_name]

\* CAP_Alert.get_geocode(notation): the location codes of that notation.
get_geocode(alert, notation) == alert[notation]

\* Python values
None == [kind |-> "None"]
List(s) == [kind |-> "list", val |-> s]
Dict(d) == [kind |-> "dict", val |-> d]

\* dict()
EmptyDict == [k \in {} |-> None]

\* d[k] = v
DictSet(d, k, v) == [x \in (DOMAIN d) \cup {k} |-> IF x = k THEN v ELSE d[x]]

\* d.setdefault(k, []).append(v)
DictAppend(d, k, v) ==
    [x \in (DOMAIN d) \cup {k} |->
        IF x = k THEN (IF k \in DOMAIN d THEN Append(d[k], v) ELSE <<v>>)
        ELSE d[x]]

\* The orders in which a dict with key set S may be iterated.
Orders(S) ==
    { o \in [1..Cardinality(S) -> S] : \A i, j \in 1..Cardinality(S) : o[i] = o[j] => i = j }

\* d.values() when the dict is iterated in key order o
Values(d, o) == [i \in 1..Len(o) |-> d[o[i]]]

\* Sequences over S of length at most n
SeqUpTo(S, n) == UNION { [1..k -> S] : k \in 0..n }

\* The elements of a sequence
Range(s) == { s[i] : i \in 1..Len(s) }

\* x in list
In(x, list) == \E i \in 1..Len(list) : list[i] = x

\* ------------------------------------------------------------------------
\* CAP_Feed, as functions of the dict self.alerts
\* ------------------------------------------------------------------------
RECURSIVE IndexByUrgency(_, _)
\* Index, were the dict keyed by another field than 'id'
IndexByUrgency(d, alert_list) ==
    IF alert_list = <<>> THEN d
    ELSE IndexByUrgency(DictSet(d, get_field(Head(alert_list), "urgency"), Head(alert_list)),
                        Tail(alert_list))

RECURSIVE IndexFirstWins(_, _)
\* Index, were an identifier already present left alone
IndexFirstWins(d, alert_list) ==
    IF alert_list = <<>> THEN d
    ELSE IndexFirstWins(IF get_field(Head(alert_list), "id") \in DOMAIN d
                        THEN d
                        ELSE DictSet(d, get_field(Head(alert_list), "id"), Head(alert_list)),
                        Tail(alert_list))

RECURSIVE Index(_, _)
\* for alert in alert_list: d[alert.get_field('id')] = alert
Index(d, alert_list) ==
    IF alert_list = <<>> THEN d
    ELSE Index(DictSet(d, get_field(Head(alert_list), "id"), Head(alert_list)),
               Tail(alert_list))

\* CAP_Feed.__init__
__init__(alert_list) == Index(EmptyDict, alert_list)

\* CAP_Feed.get_alerts
get_alerts(self, o) == Values(self, o)

\* CAP_Feed.count_alerts
count_alerts(self) == Cardinality(DOMAIN self)

\* __add__, were other's alerts put in front of self's
AddOtherFirst(self, other, o1, o2) == __init__(get_alerts(other, o2) \o get_alerts(self, o1))

\* CAP_Feed.__add__: a new feed from self's alerts followed by other's
__add__(self, other, o1, o2) == __init__(get_alerts(self, o1) \o get_alerts(other, o2))

\* CAP_Feed.__iadd__: other's alerts written into self's dict
__iadd__(self, other, o2) == Index(self, get_alerts(other, o2))

RECURSIVE Group(_, _, _)
\* the loop of categorize_alerts
Group(d, entries, field_name) ==
    IF entries = <<>> THEN d
    ELSE Group(DictAppend(d, get_field(Head(entries), field_name), Head(entries)),
               Tail(entries), field_name)

\* CAP_Feed.categorize_alerts
categorize_alerts(self, field_name, o) ==
    IF count_alerts(self) # 0
    THEN Dict(Group(EmptyDict, Values(self, o), field_name))
    ELSE None

RECURSIVE KeepFirstValue(_, _, _, _)
\* Keep, were the field compared with values[0] only
KeepFirstValue(d, entries, field_name, values) ==
    IF entries = <<>> THEN d
    ELSE KeepFirstValue(IF values # <<>> /\ get_field(Head(entries), field_name) = values[1]
                        THEN DictSet(d, get_field(Head(entries), "id"), Head(entries))
                        ELSE d,
                        Tail(entries), field_name, values)

RECURSIVE Keep(_, _, _, _)
\* the loop of filter_alerts
Keep(d, entries, field_name, values) ==
    IF entries = <<>> THEN d
    ELSE Keep(IF In(get_field(Head(entries), field_name), values)
              THEN DictSet(d, get_field(Head(entries), "id"), Head(entries))
              ELSE d,
              Tail(entries), field_name, values)

\* CAP_Feed.filter_alerts, the dict it builds (None on an empty feed)
filter_alerts(self, field_name, values, o) ==
    IF count_alerts(self) # 0
    THEN Dict(Keep(EmptyDict, Values(self, o), field_name, values))
    ELSE None

RECURSIVE Cover(_, _, _, _)
\* the loop of filter_by_location
Cover(d, entries, locations, notation) ==
    IF entries = <<>> THEN d
    ELSE LET alert == Head(entries)
             matches == Cardinality(get_geocode(alert, notation) \cap Range(locations))
         IN  Cover(IF matches = Len(locations)
                   THEN DictSet(d, get_field(alert, "id"), alert)
                   ELSE d,
                   Tail(entries), locations, notation)

\* filter_by_location, were the empty feed not told apart
FilterByLocationNoGuard(self, locations, notation, o) ==
    Dict(Cover(EmptyDict, get_alerts(self, o), locations, notation))

\* CAP_Feed.filter_by_location, the dict it builds (None on an empty feed)
filter_by_location(self, locations, notation, o) ==
    IF count_alerts(self) = 0
    THEN None
    ELSE Dict(Cover(EmptyDict, get_alerts(self, o), locations, notation))

\* ------------------------------------------------------------------------
\* The alert server, and the fetch constructors
\* ------------------------------------------------------------------------
\* The title of the entry the server sends when nothing is active.
NoAlertsTitle == "There are no active watches, warnings or advisories"

\* The entries a fetched document may hold: one per alert, or the sentinel.
Entries ==
    { [title |-> "alert", alert |-> a] : a \in Alerts }
        \cup { [title |-> NoAlertsTitle, alert |-> Alert("A", "Expected", {}, {})] }

\* A well-formed document holds at least one entry.
Documents == SeqUpTo(Entries, MaxEntries) \ {<<>>}

\* The ways urlopen / objectify.fromstring fail.
FetchErrors == {"TransportError", "ParseError"}

Error(e) == [kind |-> "error", val |-> e]

\* str.lower(), character by character
LowerChar(c) ==
    CASE c = "M" -> "m" [] c = "I" -> "i" [] c = "O" -> "o" [] c = "H" -> "h"
      [] c = "Z" -> "z" [] OTHER -> c

lower(s) == [i \in 1..Len(s) |-> LowerChar(s[i])]

RECURSIVE Wrap(_, _)
\* the loop of from_url: every entry but the sentinel becomes a CAP_Alert
Wrap(list, entries) ==
    IF entries = <<>> THEN list
    ELSE Wrap(IF Head(entries).title # NoAlertsTitle
              THEN Append(list, Head(entries).alert)
              ELSE list,
              Tail(entries))

\* CAP_Feed.from_url, given the document the server answered with
from_url(xml_doc) == __init__(Wrap(<<>>, xml_doc))

\* CAP_Feed.whole_state: the state code as it appears in the URL fetched
whole_state(state) == lower(state)

RECURSIVE ByState(_, _)
\* the first loop of get_zones: requests.setdefault(zone[0:2].lower(), []).append(zone)
ByState(d, zones) ==
    IF zones = <<>> THEN d
    ELSE ByState(DictAppend(d, lower(SubSeq(Head(zones), 1, 2)), Head(zones)), Tail(zones))

\* The keys of a dict in iteration order o that are also keys of d
Suborder(o, d) == SelectSeq(o, LAMBDA k : k \in DOMAIN d)

RECURSIVE Collect(_, _, _, _)
\* the inner loop of get_zones: alerts += state_alerts.filter_by_location([zone], 'UGC');
\* list += None raises TypeError
Collect(list, zones, state_alerts, o) ==
    IF zones = <<>> THEN List(list)
    ELSE LET built == filter_by_location(state_alerts, <<Head(zones)>>, "UGC", o)
         IN  IF built.kind = "None" THEN Error("TypeError")
             ELSE Collect(list \o Values(built.val, Suborder(o, built.val)),
                          Tail(zones), state_alerts, o)

\* ------------------------------------------------------------------------
\* State
\* ------------------------------------------------------------------------
FeedNames == {"a", "b"}

VARIABLES
    feeds,       \* feeds[f]: the dict self.alerts of feed object f
    last,        \* the call whose return value the caller holds: arguments,
                 \* the feeds before the call, the value returned
    pc,          \* get_zones: where the call stands
    zone_codes,  \* get_zones: its argument
    requests,    \* get_zones: the dict state -> zones
    todo,        \* get_zones: the states still to visit, in requests.keys() order
    alerts,      \* get_zones: the list of alerts collected so far
    log,         \* the whole-state fetches issued so far, with their outcome
    result       \* get_zones: the feed returned or the error raised

feedVars == <<feeds, last>>
zoneVars == <<pc, zone_codes, requests, todo, alerts, log, result>>
vars == <<feeds, last, pc, zone_codes, requests, todo, alerts, log, result>>

NoCall ==
    [op |-> "none", self |-> "a", other |-> "a", field |-> "id", values |-> <<>>,
     locations |-> <<>>, notation |-> "UGC", store |-> FALSE,
     alert_list |-> <<>>, pre |-> [f \in FeedNames |-> EmptyDict], ret |-> None]

InitFeeds ==
    /\ feeds = [f \in FeedNames |-> EmptyDict]
    /\ last = NoCall

InitZones ==
    /\ pc = "idle"
    /\ zone_codes = <<>>
    /\ requests = EmptyDict
    /\ todo = <<>>
    /\ alerts = <<>>
    /\ log = <<>>
    /\ result = None

Init == InitFeeds /\ InitZones

\* ------------------------------------------------------------------------
\* Operations on feeds.  The caller makes one call at a time and is done
\* with its return value (Discard) before it makes the next.
\* ------------------------------------------------------------------------
\* The caller holds no return value: it may make its next call.
Idle == last.op = "none"

\* f = CAP_Feed(alert_list)
Construct(f, alert_list) ==
    /\ Idle
    /\ feeds' = [feeds EXCEPT ![f] = __init__(alert_list)]
    /\ last' = [NoCall EXCEPT !.op = "Construct", !.self = f, !.alert_list = alert_list,
                              !.pre = feeds, !.ret = Dict(__init__(alert_list))]
    /\ UNCHANGED zoneVars

\* f + g: a new feed is returned
Combine(f, g, o1, o2) ==
    /\ Idle
    /\ last' = [NoCall EXCEPT !.op = "Combine", !.self = f, !.other = g, !.pre = feeds,
                              !.ret = Dict(__add__(feeds[f], feeds[g], o1, o2))]
    /\ UNCHANGED feeds
    /\ UNCHANGED zoneVars

\* f += g: f's dict is written, f is returned
MergeInPlace(f, g, o2) ==
    /\ Idle
    /\ feeds' = [feeds EXCEPT ![f] = __iadd__(feeds[f], feeds[g], o2)]
    /\ last' = [NoCall EXCEPT !.op = "MergeInPlace", !.self = f, !.other = g, !.pre = feeds,
                              !.ret = Dict(__iadd__(feeds[f], feeds[g], o2))]
    /\ UNCHANGED zoneVars

\* f.categorize_alerts(field_name)
Categorize(f, field_name, o) ==
    /\ Idle
    /\ last' = [NoCall EXCEPT !.op = "Categorize", !.self = f, !.field = field_name,
                              !.pre = feeds,
                              !.ret = categorize_alerts(feeds[f], field_name, o)]
    /\ UNCHANGED feeds
    /\ UNCHANGED zoneVars

\* Store, were the flag ignored
StoreNever(self, built, store) == self

\* if store: self.alerts = alerts   (not reached on an empty feed)
Store(self, built, store) == IF store /\ built.kind = "dict" THEN built.val ELSE self

\* return alerts.values()   (None on an empty feed)
Returned(built, o) == IF built.kind = "dict" THEN List(Values(built.val, o)) ELSE None

\* The iteration orders of the dict a filter built
BuiltOrders(built) == Orders(IF built.kind = "dict" THEN DOMAIN built.val ELSE {})

\* f.filter_alerts(field_name, values, store)
Filter(f, field_name, values, store, o) ==
    LET built == filter_alerts(feeds[f], field_name, values, o)
    IN  /\ Idle
        /\ feeds' = [feeds EXCEPT ![f] = Store(feeds[f], built, store)]
        /\ \E o2 \in BuiltOrders(built) :
              last' = [NoCall EXCEPT !.op = "Filter", !.self = f, !.field = field_name,
                                     !.values = values, !.store = store, !.pre = feeds,
                                     !.ret = Returned(built, o2)]
        /\ UNCHANGED zoneVars

\* f.filter_by_location(locations, notation, store)
FilterByLocation(f, locations, notation, store, o) ==
    LET built == filter_by_location(feeds[f], locations, notation, o)
    IN  /\ Idle
        /\ feeds' = [feeds EXCEPT ![f] = Store(feeds[f], built, store)]
        /\ \E o2 \in BuiltOrders(built) :
              last' = [NoCall EXCEPT !.op = "FilterByLocation", !.self = f,
                                     !.locations = locations, !.notation = notation,
                                     !.store = store, !.pre = feeds,
                                     !.ret = Returned(built, o2)]
        /\ UNCHANGED zoneVars

\* The caller is done with the value returned.
Discard ==
    /\ last.op # "none"
    /\ last' = NoCall
    /\ UNCHANGED feeds
    /\ UNCHANGED zoneVars

NextFeeds ==
    \/ Idle /\ \E f \in FeedNames, l \in SeqUpTo(Alerts, MaxAlerts) : Construct(f, l)
    \/ Idle /\ \E f, g \in FeedNames :
          \E o1 \in Orders(DOMAIN feeds[f]), o2 \in Orders(DOMAIN feeds[g]) :
             Combine(f, g, o1, o2)
    \/ Idle /\ \E f, g \in FeedNames : \E o2 \in Orders(DOMAIN feeds[g]) :
          MergeInPlace(f, g, o2)
    \/ Idle /\ \E f \in FeedNames, n \in FieldNames : \E o \in Orders(DOMAIN feeds[f]) :
          Categorize(f, n, o)
    \/ Idle /\ \E f \in FeedNames, n \in FieldNames,
          v \in SeqUpTo(Ids \cup Urgencies, MaxValues), s \in BOOLEAN :
          \E o \in Orders(DOMAIN feeds[f]) : Filter(f, n, v, s, o)
    \/ Idle /\ \E f \in FeedNames, n \in Notations,
          l \in SeqUpTo(ZoneCodes \cup CountyCodes, MaxValues), s \in BOOLEAN :
          \E o \in Orders(DOMAIN feeds[f]) : FilterByLocation(f, l, n, s, o)
    \/ Discard

Spec == Init /\ [][NextFeeds]_vars

\* ------------------------------------------------------------------------
\* get_zones, one step per line of its outer loop
\* ------------------------------------------------------------------------
\* get_zones is called: the zone codes are grouped by state (lines 82-85)
GetZones(zones, o) ==
    /\ pc = "idle"
    /\ zone_codes' = zones
    /\ requests' = ByState(EmptyDict, zones)
    /\ todo' = o
    /\ alerts' = <<>>
    /\ pc' = "loop"
    /\ UNCHANGED <<log, result>>
    /\ UNCHANGED feedVars

\* One pass of the outer loop in which the fetch succeeds (lines 86-89)
WholeStateOK(xml_doc, o) ==
    LET state == Head(todo)
        state_alerts == from_url(xml_doc)
        got == Collect(alerts, requests[state], state_alerts, o)
    IN  /\ pc = "loop"
        /\ todo # <<>>
        /\ log' = Append(log, [state |-> whole_state(state), outcome |-> "ok",
                               feed |-> state_alerts])
        /\ IF got.kind = "error"
           THEN /\ pc' = "raised"
                /\ result' = got
                /\ UNCHANGED <<alerts, todo>>
           ELSE /\ alerts' = got.val
                /\ todo' = Tail(todo)
                /\ UNCHANGED <<pc, result>>
        /\ UNCHANGED <<zone_codes, requests>>
        /\ UNCHANGED feedVars

\* WholeStateFails, were the error swallowed and the loop continued
WholeStateSkips(e) ==
    /\ pc = "loop"
    /\ todo # <<>>
    /\ log' = Append(log, [state |-> whole_state(Head(todo)), outcome |-> e,
                           feed |-> EmptyDict])
    /\ todo' = Tail(todo)
    /\ UNCHANGED <<pc, result, zone_codes, requests, alerts>>
    /\ UNCHANGED feedVars

\* One pass of the outer loop in which the fetch fails: the error propagates
WholeStateFails(e) ==
    /\ pc = "loop"
    /\ todo # <<>>
    /\ log' = Append(log, [state |-> whole_state(Head(todo)), outcome |-> e,
                           feed |-> EmptyDict])
    /\ pc' = "raised"
    /\ result' = Error(e)
    /\ UNCHANGED <<zone_codes, requests, todo, alerts>>
    /\ UNCHANGED feedVars

\* return cls(alerts) (line 90)
ReturnZones ==
    /\ pc = "loop"
    /\ todo = <<>>
    /\ result' = Dict(__init__(alerts))
    /\ pc' = "returned"
    /\ UNCHANGED <<zone_codes, requests, todo, alerts, log>>
    /\ UNCHANGED feedVars

NextZones ==
    \/ \E zones \in SeqUpTo(ZoneCodes, MaxZones) :
          \E o \in Orders(DOMAIN ByState(EmptyDict, zones)) : GetZones(zones, o)
    \/ \E d \in Documents : \E o \in Orders(DOMAIN from_url(d)) : WholeStateOK(d, o)
    \/ \E e \in FetchErrors : WholeStateFails(e)
    \/ ReturnZones

SpecZones == Init /\ [][NextZones]_vars

\* ------------------------------------------------------------------------
\* Properties
\* ------------------------------------------------------------------------
\* The alerts a dict holds
DictValues(d) == { d[k] : k \in DOMAIN d }

\* No element occurs twice in the sequence
NoDup(s) == \A i, j \in 1..Len(s) : s[i] = s[j] => i = j

\* Every key of the dict is the 'id' of the alert it maps to
KeysAreIds(d) == \A k \in DOMAIN d : get_field(d[k], "id") = k

\* The feed the last call was made on, before and after it
PreSelf == last.pre[last.self]
PreOther == last.pre[last.other]
PostSelf == feeds[last.self]

\* C1: in every reachable state each key of a feed's dict (a stored feed or
\* the feed a constructor, + or += returned) is the 'id' of the alert it
\* maps to, so no two alerts of one feed share an identifier.
C1_KeysAreIds ==
    /\ \A f \in FeedNames :
          /\ KeysAreIds(feeds[f])
          /\ \A j, k \in DOMAIN feeds[f] :
                get_field(feeds[f][j], "id") = get_field(feeds[f][k], "id") => j = k
    /\ last.op \in {"Construct", "Combine", "MergeInPlace"} => KeysAreIds(last.ret.val)

\* a feed of two alerts left by += over a feed that held another copy of one of them
C1_Witness ==
    /\ last.op = "MergeInPlace"
    /\ count_alerts(PostSelf) = 2
    /\ \E k \in DOMAIN PreSelf \cap DOMAIN PreOther : PreSelf[k] # PreOther[k]

\* The last place of the list that carries identifier i
LastIndexOf(l, i) ==
    CHOOSE n \in 1..Len(l) :
        get_field(l[n], "id") = i /\ \A m \in (n + 1)..Len(l) : get_field(l[m], "id") # i

\* C2: the constructor yields a feed whose identifiers are those of the list
\* and which holds, per identifier, the last list entry carrying it; two
\* alerts with one identifier give a feed of one alert, the later one.
C2_ConstructLastWins ==
    last.op = "Construct" =>
        LET l == last.alert_list
        IN  /\ DOMAIN PostSelf = { get_field(l[n], "id") : n \in 1..Len(l) }
            /\ \A k \in DOMAIN PostSelf : PostSelf[k] = l[LastIndexOf(l, k)]
            /\ (Len(l) = 2 /\ get_field(l[1], "id") = get_field(l[2], "id")) =>
                  (count_alerts(PostSelf) = 1 /\ DictValues(PostSelf) = {l[2]})

\* a list of two different alerts with one identifier was indexed
C2_Witness ==
    /\ last.op = "Construct"
    /\ Len(last.alert_list) = 2
    /\ last.alert_list[1] # last.alert_list[2]
    /\ get_field(last.alert_list[1], "id") = get_field(last.alert_list[2], "id")
    /\ count_alerts(PostSelf) = 1

\* C3: a + b and a += b give a feed whose identifiers are the union of a's
\* and b's, the same set as with the operands exchanged, and which holds b's
\* copy of every alert whose identifier is in both.
C3_RightOperandWins ==
    last.op \in {"Combine", "MergeInPlace"} =>
        LET r == last.ret.val
        IN  /\ DOMAIN r = DOMAIN PreSelf \cup DOMAIN PreOther
            /\ \A k \in DOMAIN PreSelf \cap DOMAIN PreOther : r[k] = PreOther[k]
            /\ \A o1 \in Orders(DOMAIN PreOther), o2 \in Orders(DOMAIN PreSelf) :
                  /\ DOMAIN __add__(PreOther, PreSelf, o1, o2) = DOMAIN r
                  /\ DOMAIN __iadd__(PreOther, PreSelf, o2) = DOMAIN r
            /\ last.op = "MergeInPlace" => PostSelf = r

\* a + b where a and b hold different copies of one alert and b one more alert
C3_Witness ==
    /\ last.op = "Combine"
    /\ \E k \in DOMAIN PreSelf \cap DOMAIN PreOther : PreSelf[k] # PreOther[k]
    /\ DOMAIN PreOther \ DOMAIN PreSelf # {}

\* C4: on a feed that holds alerts, filter_alerts returns exactly the alerts
\* whose field value is in values, each once; nothing with values = [].
C4_FilterExact ==
    (last.op = "Filter" /\ count_alerts(PreSelf) # 0) =>
        /\ last.ret.kind = "list"
        /\ Range(last.ret.val) =
              { a \in DictValues(PreSelf) : get_field(a, last.field) \in Range(last.values) }
        /\ NoDup(last.ret.val)
        /\ last.values = <<>> => last.ret.val = <<>>

\* a filter on a second value of the list kept one of two alerts
C4_Witness ==
    /\ last.op = "Filter"
    /\ count_alerts(PreSelf) = 2
    /\ Len(last.values) = 2
    /\ Len(last.ret.val) = 1
    /\ get_field(last.ret.val[1], last.field) = last.values[2]
    /\ last.values[1] # last.values[2]

\* C5: on a feed that holds alerts, filter_by_location returns exactly the
\* alerts whose geocodes of the notation contain every code of locations,
\* whatever the length of locations and however often a code occurs in it.
C5_CoversEveryLocation ==
    (last.op = "FilterByLocation" /\ count_alerts(PreSelf) # 0) =>
        /\ last.ret.kind = "list"
        /\ Range(last.ret.val) =
              { a \in DictValues(PreSelf) :
                    Range(last.locations) \subseteq get_geocode(a, last.notation) }

\* C7: on a feed that holds no alert, categorize_alerts, filter_alerts and
\* filter_by_location return None, with store set too, and the feed still
\* holds no alert.
C7_EmptyFeedNone ==
    (last.op \in {"Categorize", "Filter", "FilterByLocation"} /\ count_alerts(PreSelf) = 0) =>
        /\ last.ret = None
        /\ count_alerts(PostSelf) = 0

\* filter_by_location with store set was called on a feed without alerts
C7_Witness ==
    /\ last.op = "FilterByLocation"
    /\ last.store
    /\ last.locations # <<>>
    /\ count_alerts(PreSelf) = 0

\* C10: on a feed that holds alerts a filter without store leaves every dict
\* as it was; with store it leaves the feed holding exactly the alerts it
\* returns, and the same call again on the feed, if it still holds alerts,
\* builds the same dict; + leaves both operands and += its right operand
\* as they were.
C10_Frame ==
    /\ (last.op \in {"Filter", "FilterByLocation"} /\ count_alerts(PreSelf) # 0) =>
          /\ ~last.store => feeds = last.pre
          /\ last.store =>
                /\ DictValues(PostSelf) = Range(last.ret.val)
                /\ count_alerts(PostSelf) = Len(last.ret.val)
                /\ \A f \in FeedNames \ {last.self} : feeds[f] = last.pre[f]
                /\ count_alerts(PostSelf) # 0 =>
                      \A o \in Orders(DOMAIN PostSelf) :
                         IF last.op = "Filter"
                         THEN filter_alerts(PostSelf, last.field, last.values, o)
                                 = Dict(PostSelf)
                         ELSE filter_by_location(PostSelf, last.locations, last.notation, o)
                                 = Dict(PostSelf)
    /\ last.op = "Combine" => feeds = last.pre
    /\ last.op = "MergeInPlace" =>
          \A f \in FeedNames \ {last.self} : feeds[f] = last.pre[f]

\* a filter with store set dropped one of the two alerts of the feed
C10_Witness ==
    /\ last.op = "Filter"
    /\ last.store
    /\ count_alerts(PreSelf) = 2
    /\ count_alerts(PostSelf) = 1
    /\ Len(last.ret.val) = 1

\* get_zones has returned or raised
Terminated == pc \in {"returned", "raised"}

\* No fetch issued so far has failed
AllFetchesSucceeded == \A i \in 1..Len(log) : log[i].outcome = "ok"

\* The states fetched so far, in order
Fetched == [i \in 1..Len(log) |-> log[i].state]

\* The lower-cased two-character prefixes of the zone codes
Prefixes(zones) == { lower(SubSeq(z, 1, 2)) : z \in Range(zones) }

\* The alerts of the whole-state feeds fetched for the state of zone z
StateAlerts(z) ==
    UNION { DictValues(log[i].feed) :
               i \in { j \in 1..Len(log) : log[j].state = lower(SubSeq(z, 1, 2)) } }

\* C6: when every fetch succeeds, get_zones returns a feed whose alerts are
\* the union, over the zone codes, of the alerts of the zone's whole-state
\* feed whose UGC codes contain the zone code, whatever the state feeds hold.
C6_UnionOfZones ==
    (Terminated /\ AllFetchesSucceeded) =>
        /\ result.kind = "dict"
        /\ DictValues(result.val) =
              UNION { { a \in StateAlerts(z) : z \in get_geocode(a, "UGC") } :
                         z \in Range(zone_codes) }

\* C8: a run of get_zones in which every fetch succeeds has fetched each
\* distinct lower-cased prefix of the zone codes exactly once.
C8_OneFetchPerState ==
    (Terminated /\ AllFetchesSucceeded) =>
        /\ NoDup(Fetched)
        /\ Range(Fetched) = Prefixes(zone_codes)

\* C9: a failed fetch is the last fetch issued: get_zones has raised its
\* error and returned no feed, whatever it had collected before.
C9_FailureAborts ==
    \A i \in 1..Len(log) :
        log[i].outcome # "ok" =>
            /\ i = Len(log)
            /\ pc = "raised"
            /\ result = Error(log[i].outcome)

\* the second fetch failed after the first had contributed alerts
C9_Witness ==
    /\ Len(log) = 2
    /\ log[1].outcome = "ok"
    /\ log[2].outcome \in FetchErrors
    /\ alerts # <<>>
    /\ pc = "raised"

====
